---- MODULE Spec2Model ----
(***************************************************************************)
(* A model of the repository-card API route: the handler (pages/api), the  *)
(* stats fetcher (utils/fetchers.ts) and the helpers of utils/common.ts.   *)
(*                                                                         *)
(* Text is modelled as sequences of one-character strings, so that the     *)
(* conversions of the program (parseInt, split, encodeHTML, word wrapping, *)
(* number formatting) are computed rather than assumed.  Characters        *)
(* outside ASCII are written by their code point: "u00EF" is U+00EF.       *)
(***************************************************************************)
EXTENDS Integers, Sequences, FiniteSets, TLC

VARIABLES
    env,        \* process.env: CACHE_SECONDS, NODE_ENV, the credentials
    query,      \* req.query of the request being handled
    pc,         \* the handler's position
    variables,  \* the GraphQL variables statsFetcher built
    retries,    \* the retrier's attempt counter
    requests,   \* transport calls made while handling the request
    inFlight,   \* transport calls awaiting their reply
    reply,      \* what the transport last answered
    res,        \* the response the retrier returned to statsFetcher
    stats,      \* what fetchStats returned to the handler
    err,        \* the error thrown and not yet (or last) caught
    headers,    \* the response headers set so far
    body,       \* the response body sent
    log         \* the calls of logger.error that wrote to the error stream

vars == <<env, query, pc, variables, retries, requests, inFlight, reply, res,
          stats, err, headers, body, log>>

-----------------------------------------------------------------------------
(* Literal texts of the source, as character sequences.                    *)

\* common.ts:85 template head: `Missing params `
MSG_MISSING_PREFIX ==
    <<"M", "i", "s", "s", "i", "n", "g", " ", "p", "a", "r", "a", "m", "s",
    " ">>

\* common.ts:87 template tail
MSG_MISSING_SUFFIX ==
    <<" ", "m", "a", "k", "e", " ", "s", "u", "r", "e", " ", "y", "o", "u",
    " ", "p", "a", "s", "s", " ", "t", "h", "e", " ", "p", "a", "r", "a",
    "m", "e", "t", "e", "r", "s", " ", "i", "n", " ", "U", "R", "L">>

\* fetchers.ts:84 default NOT_FOUND message
MSG_COULD_NOT_FETCH_USER ==
    <<"C", "o", "u", "l", "d", " ", "n", "o", "t", " ", "f", "e", "t", "c",
    "h", " ", "u", "s", "e", "r", ".">>

\* fetchers.ts:95 generic message
MSG_GRAPHQL_GENERIC ==
    <<"S", "o", "m", "e", "t", "h", "i", "n", "g", " ", "w", "e", "n", "t",
    " ", "w", "r", "o", "n", "g", " ", "w", "h", "i", "l", "e", " ", "t",
    "r", "y", "i", "n", "g", " ", "t", "o", " ", "r", "e", "t", "r", "i",
    "e", "v", "e", " ", "t", "h", "e", " ", "s", "t", "a", "t", "s", " ",
    "d", "a", "t", "a", " ", "u", "s", "i", "n", "g", " ", "t", "h", "e",
    " ", "G", "r", "a", "p", "h", "Q", "L", " ", "A", "P", "I", ".">>

\* primary message of the retrier's terminal error
MSG_MAX_RETRY ==
    <<"M", "a", "x", "i", "m", "u", "m", " ", "r", "e", "t", "r", "i", "e",
    "s", " ", "e", "x", "c", "e", "e", "d", "e", "d">>

\* engine message of reading .type of errors[0] when errors is []
MSG_TYPEERROR_TYPE ==
    <<"C", "a", "n", "n", "o", "t", " ", "r", "e", "a", "d", " ", "p", "r",
    "o", "p", "e", "r", "t", "i", "e", "s", " ", "o", "f", " ", "u", "n",
    "d", "e", "f", "i", "n", "e", "d", " ", "(", "r", "e", "a", "d", "i",
    "n", "g", " ", "'", "t", "y", "p", "e", "'", ")">>

\* message of a transport-level rejection of axios
MSG_NETWORK_ERROR ==
    <<"N", "e", "t", "w", "o", "r", "k", " ", "E", "r", "r", "o", "r">>

\* engine message of a failed JSON serialisation
MSG_JSON_ERROR ==
    <<"C", "o", "n", "v", "e", "r", "t", "i", "n", "g", " ", "c", "i", "r",
    "c", "u", "l", "a", "r", " ", "s", "t", "r", "u", "c", "t", "u", "r",
    "e", " ", "t", "o", " ", "J", "S", "O", "N">>

\* fetchers.ts:61 the missing parameter's name
STR_REPO ==
    <<"r", "e", "p", "o">>

-----------------------------------------------------------------------------
(* JavaScript values.                                                      *)

\* The value undefined where a string may stand: no string has an element
\* that is not a single character, so this is distinct from every string.
Undefined == <<"<undefined>">>

\* An absent `type` of an upstream error object.
NoType == "<undefined>"

\* Truthiness of a string-or-undefined value: undefined and '' are falsy.
Truthy(v) == v # Undefined /\ v # <<>>

\* NaN, and a number, as parseInt returns them.
NaN == [nan |-> TRUE, v |-> 0]
Num(n) == [nan |-> FALSE, v |-> n]

Rep(c, n) == [i \in 1..n |-> c]

Min(a, b) == IF a < b THEN a ELSE b
Max(a, b) == IF a > b THEN a ELSE b

Digits == <<"0", "1", "2", "3", "4", "5", "6", "7", "8", "9">>
IsDigit(c) == \E d \in 1..10 : Digits[d] = c
DigitVal(c) == (CHOOSE d \in 1..10 : Digits[d] = c) - 1

\* Whitespace as \s and String.prototype.trim see it (the characters used).
IsWhitespace(c) == c \in {" ", "\t", "\n"}

\* parseInt(s, 10): leading whitespace skipped, an optional sign, then the
\* longest run of decimal digits; NaN when there is no digit.
RECURSIVE SkipWhitespace(_)
SkipWhitespace(s) ==
    IF s # <<>> /\ IsWhitespace(Head(s)) THEN SkipWhitespace(Tail(s)) ELSE s

RECURSIVE DigitRun(_, _)
DigitRun(s, acc) ==
    IF s # <<>> /\ IsDigit(Head(s))
    THEN DigitRun(Tail(s), acc * 10 + DigitVal(Head(s)))
    ELSE acc

parseInt(s) ==
    LET t == SkipWhitespace(s)
        neg == t # <<>> /\ Head(t) = "-"
        u == IF t # <<>> /\ Head(t) \in {"-", "+"} THEN Tail(t) ELSE t
    IN IF s = Undefined \/ u = <<>> \/ ~IsDigit(Head(u))
       THEN NaN
       ELSE Num(IF neg THEN 0 - DigitRun(u, 0) ELSE DigitRun(u, 0))

\* String(n) of a non-negative integer, and of any integer.
RECURSIVE NatToStr(_)
NatToStr(n) ==
    IF n < 10 THEN <<Digits[n + 1]>>
    ELSE NatToStr(n \div 10) \o <<Digits[(n % 10) + 1]>>

IntToStr(n) == IF n < 0 THEN <<"-">> \o NatToStr(0 - n) ELSE NatToStr(n)

\* String(n / 2) of an integer n: JavaScript's division is not integer
\* division, an odd n gives a decimal ending in .5.
HalfToStr(n) ==
    LET a == IF n < 0 THEN 0 - n ELSE n
    IN (IF n < 0 THEN <<"-">> ELSE <<>>) \o NatToStr(a \div 2)
       \o (IF a % 2 = 1 THEN <<".", "5">> ELSE <<>>)

\* String.prototype.split(sep) for a one-character separator: the pieces
\* between the occurrences of sep, empty pieces included.
Split(s, sep) ==
    LET at == {i \in 1..Len(s) : s[i] = sep}
        nth(k) == CHOOSE i \in at : Cardinality({j \in at : j <= i}) = k
        n == Cardinality(at)
        first(k) == IF k = 1 THEN 1 ELSE nth(k - 1) + 1
        last(k) == IF k = n + 1 THEN Len(s) ELSE nth(k) - 1
    IN [k \in 1..(n + 1) |-> SubSeq(s, first(k), last(k))]

\* Array destructuring: the element at index i (from 1), undefined past the end.
ElementAt(arr, i) == IF i <= Len(arr) THEN arr[i] ELSE Undefined

\* String.prototype.trim.
RECURSIVE TrimEnd(_)
TrimEnd(s) ==
    IF s # <<>> /\ IsWhitespace(s[Len(s)])
    THEN TrimEnd(SubSeq(s, 1, Len(s) - 1)) ELSE s

Trim(s) == TrimEnd(SkipWhitespace(s))

\* String.prototype.includes.
Includes(s, sub) ==
    \E i \in 1..(Len(s) - Len(sub) + 1) : SubSeq(s, i, i + Len(sub) - 1) = sub

\* The concatenation of the strings ss[lo..hi].
RECURSIVE FlattenRange(_, _, _)
FlattenRange(ss, lo, hi) ==
    IF lo > hi THEN <<>>
    ELSE IF lo = hi THEN ss[lo]
    ELSE LET mid == (lo + hi) \div 2
         IN FlattenRange(ss, lo, mid) \o FlattenRange(ss, mid + 1, hi)

Flatten(ss) == FlattenRange(ss, 1, Len(ss))
-----------------------------------------------------------------------------
(* utils/common.ts                                                         *)

\* The characters the class [ -香<>&] of encodeHTML matches, with
\* their charCodeAt(0).  "uFF0C" (the full-width comma) lies above 香.
CharCode ==
    [c \in {"<", ">", "&", "u00EF", "u00BC", "u0152"} |->
        CASE c = "<" -> 60
          [] c = ">" -> 62
          [] c = "&" -> 38
          [] c = "u00EF" -> 239
          [] c = "u00BC" -> 188
          [] c = "u0152" -> 338]

\* encodeHTML: every character of the class that is not followed by '#'
\* becomes '&#' + its code + ';', then every backspace is dropped.
EncodeAt(str, i) ==
    LET c == str[i]
        followedByHash == i < Len(str) /\ str[i + 1] = "#"
    IN IF c \in DOMAIN CharCode /\ ~followedByHash
       THEN <<"&", "#">> \o NatToStr(CharCode[c]) \o <<";">>
       ELSE <<c>>

encodeHTML(str) ==
    SelectSeq(Flatten([i \in 1..Len(str) |-> EncodeAt(str, i)]),
              LAMBDA c : c # "u0008")

\* renderError: the SVG card, by the two texts it interpolates.
renderError(message, secondaryMessage) ==
    [kind |-> "svg", message |-> encodeHTML(message),
     secondary |-> secondaryMessage]

\* SECONDARY_ERROR_MESSAGES[type] || type
SECONDARY_ERROR_MESSAGES ==
    [MAX_RETRY |->
        "Please add an env variable called PAT_1 with your github token in vercel",
     USER_NOT_FOUND |-> "Make sure the provided username is not an organization",
     GRAPHQL_ERROR |-> "Please try again later",
     WAKATIME_USER_NOT_FOUND |-> "Make sure you have a public WakaTime profile"]

\* An absent secondaryMessage of an error object.
UndefinedStr == "<undefined>"

\* String(v) of a string-or-undefined value held as a TLA+ string.
StringOf(v) == IF v = UndefinedStr THEN "undefined" ELSE v

\* new CustomError(message, type).  An Error built from an undefined message
\* has the message ''.
CustomError(message, type) ==
    [name |-> "CustomError",
     message |-> IF message = Undefined THEN <<>> ELSE message,
     type |-> type,
     secondaryMessage |->
        IF type \in DOMAIN SECONDARY_ERROR_MESSAGES
        THEN SECONDARY_ERROR_MESSAGES[type] ELSE type]

\* new MissingParamError(missedParams): the names quoted and joined by ', '.
RECURSIVE JoinQuoted(_)
JoinQuoted(params) ==
    IF params = <<>> THEN <<>>
    ELSE <<"\"">> \o Head(params) \o <<"\"">>
         \o (IF Len(params) > 1 THEN <<",", " ">> ELSE <<>>)
         \o JoinQuoted(Tail(params))

MissingParamError(missedParams) ==
    [name |-> "MissingParamError",
     message |-> MSG_MISSING_PREFIX \o JoinQuoted(missedParams)
                 \o MSG_MISSING_SUFFIX,
     type |-> UndefinedStr,
     secondaryMessage |-> UndefinedStr]

\* clampValue with the upper limit forgotten.
clampValue_noUpperLimit(number, min, max) ==
    IF number.nan THEN min ELSE IF number.v < min THEN min ELSE number.v

\* clampValue: min for NaN, else max(min, min(number, max)).
clampValue(number, min, max) ==
    IF number.nan THEN min ELSE Max(min, Min(number.v, max))

FOUR_HOURS == 14400
ONE_DAY == 86400

\* parseString: '' for a falsy input, else String(input).
parseString(input) == IF ~Truthy(input) THEN <<>> ELSE input

\* wrap(str, {width}) of the word-wrap package: the lines are the matches of
\*   /.{1,width}([\s]+|$)|[^\s]+?([\s]+|$)/g
\* each without a final newline, joined by '\n' + indent behind one indent
\* (two spaces).  A word longer than width is not cut.
WsRunEnd(s, p) ==
    CHOOSE j \in p..Len(s) :
        /\ \A q \in p..j : IsWhitespace(s[q])
        /\ j = Len(s) \/ ~IsWhitespace(s[j + 1])

WordEnd(s, p) ==
    CHOOSE j \in p..Len(s) :
        /\ \A q \in p..j : ~IsWhitespace(s[q])
        /\ j = Len(s) \/ IsWhitespace(s[j + 1])

\* The end of the match starting at i, 0 when the pattern does not match there.
MatchEnd(s, i, width) ==
    LET dots == {k \in 1..Min(width, Len(s) - i + 1) :
                    \A q \in i..(i + k - 1) : s[q] # "\n"}
        ks == {k \in dots : i + k - 1 = Len(s) \/ IsWhitespace(s[i + k])}
        k == CHOOSE x \in ks : \A y \in ks : y <= x
        afterWord == WordEnd(s, i)
    IN IF ks # {}
       THEN IF i + k - 1 = Len(s) THEN Len(s) ELSE WsRunEnd(s, i + k)
       ELSE IF ~IsWhitespace(s[i])
       THEN IF afterWord = Len(s) THEN Len(s) ELSE WsRunEnd(s, afterWord + 1)
       ELSE 0

RECURSIVE MatchAll(_, _, _)
MatchAll(s, i, width) ==
    IF i > Len(s) THEN <<>>
    ELSE LET e == MatchEnd(s, i, width)
         IN IF e = 0 THEN MatchAll(s, i + 1, width)
            ELSE <<SubSeq(s, i, e)>> \o MatchAll(s, e + 1, width)

RECURSIVE JoinLines(_, _)
JoinLines(lines, sep) ==
    IF lines = <<>> THEN <<>>
    ELSE IF Len(lines) = 1 THEN Head(lines)
    ELSE Head(lines) \o sep \o JoinLines(Tail(lines), sep)

wrap(str, width) ==
    LET indent == <<" ", " ">>
        strip(line) == IF line[Len(line)] = "\n"
                       THEN SubSeq(line, 1, Len(line) - 1) ELSE line
        matched == MatchAll(str, 1, width)
        lines == [n \in 1..Len(matched) |-> strip(matched[n])]
    IN indent \o JoinLines(lines, <<"\n">> \o indent)

\* String.prototype.split(sub) for a separator of several characters.
RECURSIVE SplitOn(_, _, _)
SplitOn(s, sub, cur) ==
    IF s = <<>> THEN <<cur>>
    ELSE IF Len(s) >= Len(sub) /\ SubSeq(s, 1, Len(sub)) = sub
    THEN <<cur>> \o SplitOn(SubSeq(s, Len(sub) + 1, Len(s)), sub, <<>>)
    ELSE SplitOn(Tail(s), sub, Append(cur, Head(s)))

\* The separator wrapTextMultiline looks for, as the source file spells it:
\* the three characters U+00EF U+00BC U+0152.
fullWidthComma == <<"u00EF", "u00BC", "u0152">>

\* wrapTextMultiline(text, width, maxLines)
wrapTextMultiline(text, width, maxLines) ==
    LET encoded == encodeHTML(text)
        isChinese == Includes(encoded, fullWidthComma)
        wrapped == IF isChinese THEN SplitOn(encoded, fullWidthComma, <<>>)
                   ELSE Split(wrap(encoded, width), "\n")
        trimmed == [n \in 1..Len(wrapped) |-> Trim(wrapped[n])]
        sliced == SubSeq(trimmed, 1, Min(maxLines, Len(trimmed)))
        lines == IF Len(wrapped) > maxLines
                 THEN [sliced EXCEPT ![maxLines] = @ \o <<".", ".", ".">>]
                 ELSE sliced
    IN SelectSeq(lines, LAMBDA line : line # <<>>)

\* logger.error(entry): console.error, or a no-op under NODE_ENV = 'test'.
loggerError(entry) ==
    IF env.NODE_ENV # "test" THEN Append(log, entry) ELSE log
-----------------------------------------------------------------------------
(* Bounds and inputs.                                                      *)

\* The largest number of configured credentials considered.
MaxCredentials == 2

\* The length of the longest run of one character in an upstream message.
LongRun == 91

Str1(a) == <<a>>
Str3(a, b, c) == <<a, b, c>>

\* req.query.repo
Repos ==
    { Undefined, <<>>,
      Str3("o", "/", "n"),
      <<"o", "/", "n", "/", "x">>,
      <<"o", "n">>,
      <<"/", "n">>,
      <<"o", "/">> }

\* req.query.cache_seconds
CacheSecondsParams ==
    { Undefined, <<>>,
      <<"1", "0">>,
      <<"1", "0", "0", "0", "0", "0">>,
      <<"1", "4", "4", "0", "0">>,
      <<"8", "6", "4", "0", "0">>,
      <<"4", "3", "2", "0", "1">>,
      <<"2", "0", "0", "0", "0", "x">>,
      Str3("a", "b", "c"),
      <<"-", "5">> }

\* process.env.CACHE_SECONDS
CacheSecondsEnvs ==
    { Undefined,
      Str3("1", "0", "0"),
      Str1("0"),
      Str3("a", "b", "c"),
      <<"-", "5">>,
      <<"5", "0", "0", "0", "1">> }

\* errors[0].message of an upstream body
Messages ==
    { Str1("x"),
      Rep("a", LongRun),
      Rep("a", LongRun - 1) \o <<" ", "b">>,
      Rep("a", 60) \o <<" ">> \o Rep("b", 60),
      Str3("a", "<", "b"),
      <<"a", "u00EF", "u00BC", "u0152", "b">>,
      Str3(" ", " ", " ") }

GraphQLError(type, message) == [type |-> type, message |-> message]

\* The `errors` arrays of the upstream bodies considered.
ErrorArrays ==
    { <<>> }
    \cup { <<GraphQLError("NOT_FOUND", m)>> : m \in {Undefined, Str1("x")} }
    \cup { <<GraphQLError("FORBIDDEN", m)>> : m \in Messages \cup {<<>>} }
    \cup { <<GraphQLError(NoType, m)>> : m \in {Undefined, Str1("x")} }

\* The body of an upstream response: data, and errors when present.
Bodies ==
    { [data |-> "repository", hasErrors |-> FALSE, errors |-> <<>>] }
    \cup { [data |-> "null", hasErrors |-> TRUE, errors |-> e] :
            e \in ErrorArrays }

\* res.statusText of a response: empty over HTTP/2.
StatusTexts == {"OK", ""}

NoBody == [data |-> "none", hasErrors |-> FALSE, errors |-> <<>>]

\* What one transport call can end in: a response envelope, a rate-limit
\* signal, or a failure of the transport.
Replies ==
    { [outcome |-> "response", statusText |-> "OK", data |-> b] :
        b \in Bodies }
    \cup { [outcome |-> "response", statusText |-> t,
             data |-> [data |-> "null", hasErrors |-> TRUE,
                       errors |-> <<GraphQLError("FORBIDDEN", Str1("x"))>>]] :
            t \in StatusTexts }
    \cup { [outcome |-> o, statusText |-> "", data |-> NoBody] :
            o \in {"rateLimited", "failed"} }

NoReply == [outcome |-> "none", statusText |-> "", data |-> NoBody]

NoError ==
    [name |-> "none", message |-> <<>>, type |-> UndefinedStr,
     secondaryMessage |-> UndefinedStr]

NoVariables == [owner |-> Undefined, name |-> Undefined]

-----------------------------------------------------------------------------
(* utils/fetchers.ts                                                       *)

WRAP_WIDTH == 90
WRAP_LINES == 1

\* statsFetcher cutting the identifier at its first '/' only.
statsFetcherVariables_firstSlashOnly(repoFullname) ==
    LET at == {i \in 1..Len(repoFullname) : repoFullname[i] = "/"}
        cut == CHOOSE i \in at : \A j \in at : i <= j
    IN IF at = {} THEN [owner |-> repoFullname, name |-> Undefined]
       ELSE [owner |-> SubSeq(repoFullname, 1, cut - 1),
             name |-> SubSeq(repoFullname, cut + 1, Len(repoFullname))]

\* statsFetcher: const [owner, name] = repoFullname.split('/')
statsFetcherVariables(repoFullname) ==
    LET parts == Split(repoFullname, "/")
    IN [owner |-> ElementAt(parts, 1), name |-> ElementAt(parts, 2)]

\* fetchStats after statsFetcher returned r: the error it throws, if any,
\* what it logs, and what it returns.
fetchStatsResult(r) ==
    LET errors == r.data.errors
        message == errors[1].message
    IN IF ~r.data.hasErrors
       THEN [threw |-> FALSE, logged |-> FALSE, error |-> NoError, value |-> r]
       ELSE [threw |-> TRUE, logged |-> TRUE, value |-> NoReply,
             error |->
                IF errors = <<>>
                THEN [name |-> "TypeError", message |-> MSG_TYPEERROR_TYPE,
                      type |-> UndefinedStr, secondaryMessage |-> UndefinedStr]
                ELSE IF errors[1].type = "NOT_FOUND"
                THEN CustomError(IF Truthy(message) THEN message
                                 ELSE MSG_COULD_NOT_FETCH_USER,
                                 "USER_NOT_FOUND")
                ELSE IF Truthy(message)
                THEN CustomError(
                        ElementAt(wrapTextMultiline(message, WRAP_WIDTH,
                                                    WRAP_LINES), 1),
                        r.statusText)
                ELSE CustomError(MSG_GRAPHQL_GENERIC, "GRAPHQL_ERROR")]

\* fetchStats without the check of its parameter.
fetchStats_noParamCheck ==
    /\ pc = "fetchStats"
    /\ variables' = statsFetcherVariables(parseString(query.repo))
    /\ pc' = "retryer"
    /\ UNCHANGED <<env, query, retries, requests, inFlight, reply, res, stats,
                   err, headers, body, log>>

\* fetchStats, entry: MissingParamError for a falsy repo, else statsFetcher
\* builds the variables and calls the retrier.
fetchStats ==
    /\ pc = "fetchStats"
    /\ LET repo == parseString(query.repo)
       IN IF ~Truthy(repo)
          THEN /\ err' = MissingParamError(<<STR_REPO>>)
               /\ pc' = "catch"
               /\ UNCHANGED variables
          ELSE /\ variables' = statsFetcherVariables(repo)
               /\ pc' = "retryer"
               /\ UNCHANGED err
    /\ UNCHANGED <<env, query, retries, requests, inFlight, reply, res, stats,
                   headers, body, log>>

\* The retrier, before an attempt: MaxRetryExceeded once every credential
\* has been used, else the fetcher is invoked with the current credential.
retryer ==
    /\ pc = "retryer"
    /\ IF retries >= env.credentials
       THEN /\ err' = CustomError(MSG_MAX_RETRY, "MAX_RETRY")
            /\ pc' = "catch"
       ELSE /\ pc' = "fetcher"
            /\ UNCHANGED err
    /\ UNCHANGED <<env, query, variables, retries, requests, inFlight, reply,
                   res, stats, headers, body, log>>

\* fetcher issuing the request a second time for the same attempt.
fetcher_requestTwice ==
    /\ pc = "fetcher"
    /\ requests' = requests + 2
    /\ inFlight' = inFlight + 1
    /\ pc' = "await"
    /\ UNCHANGED <<env, query, variables, retries, reply, res, stats, err,
                   headers, body, log>>

\* fetcher: one call of request(), awaited.
fetcher ==
    /\ pc = "fetcher"
    /\ requests' = requests + 1
    /\ inFlight' = inFlight + 1
    /\ pc' = "await"
    /\ UNCHANGED <<env, query, variables, retries, reply, res, stats, err,
                   headers, body, log>>

\* request(): the POST settles, with a response or a rejection.
request(r) ==
    /\ pc = "await"
    /\ inFlight' = inFlight - 1
    /\ reply' = r
    /\ pc' = "settled"
    /\ UNCHANGED <<env, query, variables, retries, requests, res, stats, err,
                   headers, body, log>>

\* The retrier, after an attempt: a response is returned as it is, a
\* rate-limited attempt moves on to the next credential, any other failure
\* is propagated at once.
retryerSettled ==
    /\ pc = "settled"
    /\ CASE reply.outcome = "response" ->
              /\ res' = reply
              /\ pc' = "classify"
              /\ UNCHANGED <<retries, err>>
         [] reply.outcome = "rateLimited" ->
              /\ retries' = retries + 1
              /\ pc' = "retryer"
              /\ UNCHANGED <<res, err>>
         [] OTHER ->
              /\ err' = [name |-> "AxiosError", message |-> MSG_NETWORK_ERROR,
                         type |-> UndefinedStr,
                         secondaryMessage |-> UndefinedStr]
              /\ pc' = "catch"
              /\ UNCHANGED <<res, retries>>
    /\ UNCHANGED <<env, query, variables, requests, inFlight, reply, stats,
                   headers, body, log>>

\* fetchStats, after statsFetcher returned: the GraphQL errors are logged
\* and classified, or the response is returned.
fetchStatsClassify ==
    /\ pc = "classify"
    /\ LET out == fetchStatsResult(res)
       IN /\ log' = IF out.logged
                    THEN loggerError([at |-> "fetchStats", what |-> "errors"])
                    ELSE log
          /\ IF out.threw
             THEN /\ err' = out.error
                  /\ pc' = "catch"
                  /\ UNCHANGED stats
             ELSE /\ stats' = out.value
                  /\ pc' = "cache"
                  /\ UNCHANGED err
    /\ UNCHANGED <<env, query, variables, retries, requests, inFlight, reply,
                   res, headers, body>>

-----------------------------------------------------------------------------
(* The handler (pages/api)                                                 *)

\* The cache duration with the environment override clamped like the
\* requested value.
cacheSeconds_clampedOverride(cache_seconds, envCacheSeconds) ==
    clampValue(parseInt(IF Truthy(envCacheSeconds) THEN envCacheSeconds
                        ELSE IF Truthy(cache_seconds) THEN cache_seconds
                        ELSE IntToStr(FOUR_HOURS)),
               FOUR_HOURS, ONE_DAY)

\* The cache duration of a success response.
cacheSeconds(cache_seconds, envCacheSeconds) ==
    LET requested ==
            clampValue(parseInt(IF Truthy(cache_seconds) THEN cache_seconds
                                ELSE IntToStr(FOUR_HOURS)),
                       FOUR_HOURS, ONE_DAY)
        override == parseInt(envCacheSeconds)
    IN IF Truthy(envCacheSeconds)
       THEN IF override.nan \/ override.v = 0 THEN requested ELSE override.v
       ELSE requested

\* The Cache-Control header values, as lists of directives.
successCacheControl(seconds) ==
    << <<"max-age", HalfToStr(seconds)>>,
       <<"s-maxage", IntToStr(seconds)>>,
       <<"stale-while-revalidate", IntToStr(ONE_DAY)>> >>

errorCacheControl ==
    << <<"no-cache", <<>>>>, <<"no-store", <<>>>>, <<"must-revalidate", <<>>>> >>

\* handler, entry: the query is read and Content-Type is set.
handler(repo, cache_seconds) ==
    /\ pc = "idle"
    /\ query' = [repo |-> repo, cache_seconds |-> cache_seconds]
    /\ headers' = [headers EXCEPT !.ContentType = "image/svg+xml"]
    /\ pc' = "fetchStats"
    /\ UNCHANGED <<env, variables, retries, requests, inFlight, reply, res,
                   stats, err, body, log>>

\* handler, after fetchStats returned: the success Cache-Control header.
handlerCacheControl ==
    /\ pc = "cache"
    /\ headers' = [headers EXCEPT !.CacheControl =
            successCacheControl(cacheSeconds(query.cache_seconds,
                                             env.CACHE_SECONDS))]
    /\ pc' = "json"
    /\ UNCHANGED <<env, query, variables, retries, requests, inFlight, reply,
                   res, stats, err, body, log>>

\* handler: res.json(stats), which sends the body or throws while
\* serialising it.
handlerJson(serialisable) ==
    /\ pc = "json"
    /\ IF serialisable
       THEN /\ body' = [kind |-> "json", value |-> stats]
            /\ pc' = "done"
            /\ UNCHANGED err
       ELSE /\ err' = [name |-> "TypeError", message |-> MSG_JSON_ERROR,
                       type |-> UndefinedStr,
                       secondaryMessage |-> UndefinedStr]
            /\ pc' = "catch"
            /\ UNCHANGED body
    /\ UNCHANGED <<env, query, variables, retries, requests, inFlight, reply,
                   res, stats, headers, log>>

\* The catch block without its Cache-Control line.
handlerCatch_keepHeader ==
    /\ pc = "catch"
    /\ log' = loggerError([at |-> "handler", what |-> err.name])
    /\ body' = renderError(err.message, StringOf(err.secondaryMessage))
    /\ pc' = "done"
    /\ UNCHANGED <<env, query, variables, retries, requests, inFlight, reply,
                   res, stats, err, headers>>

\* The catch block without its logger.error line.
handlerCatch_noLog ==
    /\ pc = "catch"
    /\ headers' = [headers EXCEPT !.CacheControl = errorCacheControl]
    /\ body' = renderError(err.message, StringOf(err.secondaryMessage))
    /\ pc' = "done"
    /\ UNCHANGED <<env, query, variables, retries, requests, inFlight, reply,
                   res, stats, err, log>>

\* handler, catch: the error is logged, the header replaced, the card sent.
handlerCatch ==
    /\ pc = "catch"
    /\ log' = loggerError([at |-> "handler", what |-> err.name])
    /\ headers' = [headers EXCEPT !.CacheControl = errorCacheControl]
    /\ body' = renderError(err.message, StringOf(err.secondaryMessage))
    /\ pc' = "done"
    /\ UNCHANGED <<env, query, variables, retries, requests, inFlight, reply,
                   res, stats, err>>

-----------------------------------------------------------------------------
Init ==
    /\ env \in [CACHE_SECONDS : CacheSecondsEnvs,
                NODE_ENV : {"production", "test"},
                credentials : 1..MaxCredentials]
    /\ query = [repo |-> Undefined, cache_seconds |-> Undefined]
    /\ pc = "idle"
    /\ variables = NoVariables
    /\ retries = 0
    /\ requests = 0
    /\ inFlight = 0
    /\ reply = NoReply
    /\ res = NoReply
    /\ stats = NoReply
    /\ err = NoError
    /\ headers = [ContentType |-> "", CacheControl |-> <<>>]
    /\ body = [kind |-> "none"]
    /\ log = <<>>

Next ==
    \/ \E repo \in Repos, cache_seconds \in CacheSecondsParams :
            handler(repo, cache_seconds)
    \/ fetchStats
    \/ retryer
    \/ fetcher
    \/ \E r \in Replies : request(r)
    \/ retryerSettled
    \/ fetchStatsClassify
    \/ handlerCacheControl
    \/ \E serialisable \in BOOLEAN : handlerJson(serialisable)
    \/ handlerCatch

Spec == Init /\ [][Next]_vars

-----------------------------------------------------------------------------
(* Reading the state.                                                      *)

\* The value of a directive of the Cache-Control header set.
DirectiveValue(name) ==
    LET cc == headers.CacheControl
    IN cc[CHOOSE i \in 1..Len(cc) : cc[i][1] = name][2]

\* Twice the number a decimal numeral denotes: digits, an optional sign, an
\* optional fraction .5
TwiceValue(str) ==
    LET neg == Head(str) = "-"
        parts == Split(IF neg THEN Tail(str) ELSE str, ".")
        twice == 2 * DigitRun(parts[1], 0)
                 + (IF Len(parts) = 2 /\ parts[2] = <<"5">> THEN 1 ELSE 0)
    IN IF neg THEN 0 - twice ELSE twice

\* A success response was sent, and the durations of its Cache-Control.
SuccessSent == pc = "done" /\ body.kind = "json"
SMaxAge == TwiceValue(DirectiveValue("s-maxage")) \div 2
TwiceMaxAge == TwiceValue(DirectiveValue("max-age"))

\* An error response was sent.
ErrorSent == pc = "done" /\ err.name # "none"

\* fetchStats has examined the upstream response the retrier returned.
Classified ==
    res.outcome = "response" /\ pc \in {"cache", "json", "catch", "done"}

\* The first error object of that response, when it has one.
HasFirstError == Classified /\ Len(res.data.errors) > 0
FirstError == res.data.errors[1]

\* The identifier handed to statsFetcher, and its parts around the first '/'.
BuilderRan == pc \notin {"idle", "fetchStats"} /\ Truthy(query.repo)
HasSlash(s) == \E i \in 1..Len(s) : s[i] = "/"
FirstSlash(s) == CHOOSE i \in 1..Len(s) : s[i] = "/" /\ \A j \in 1..(i - 1) : s[j] # "/"
BeforeSlash(s) == SubSeq(s, 1, FirstSlash(s) - 1)
AfterSlash(s) == SubSeq(s, FirstSlash(s) + 1, Len(s))
UpToSlash(s) == IF HasSlash(s) THEN BeforeSlash(s) ELSE s

LogEntry(at, what) == [at |-> at, what |-> what]
Logging == env.NODE_ENV # "test"

\* The message of the error card for a missing repo parameter.
MSG_MISSING_REPO ==
    <<"M", "i", "s", "s", "i", "n", "g", " ", "p", "a", "r", "a", "m", "s",
    " ", "\"", "r", "e", "p", "o", "\"", " ", "m", "a", "k", "e", " ", "s",
    "u", "r", "e", " ", "y", "o", "u", " ", "p", "a", "s", "s", " ", "t",
    "h", "e", " ", "p", "a", "r", "a", "m", "e", "t", "e", "r", "s", " ",
    "i", "n", " ", "U", "R", "L">>
\* the default NOT_FOUND message as the specification words it
MSG_COULD_NOT_FETCH_REPOSITORY ==
    <<"C", "o", "u", "l", "d", " ", "n", "o", "t", " ", "f", "e", "t", "c",
    "h", " ", "r", "e", "p", "o", "s", "i", "t", "o", "r", "y", ".">>

-----------------------------------------------------------------------------
(* The claims.                                                             *)

\* C1: for an empty or absent repo identifier the run ends with the error
\* response built from MissingParamError, and no transport call is made at
\* any point of the run.
C1_MissingRepoNoRequest ==
    (pc # "idle" /\ query.repo \in {Undefined, <<>>}) =>
        /\ requests = 0 /\ inFlight = 0 /\ reply = NoReply
        /\ pc \in {"fetchStats", "catch", "done"}
        /\ pc = "done" =>
            /\ err.name = "MissingParamError"
            /\ body.kind = "svg"
            /\ body.message = MSG_MISSING_REPO
            /\ body.secondary = "undefined"

C1_Witness ==
    pc = "done" /\ query.repo = <<>> /\ body.kind = "svg" /\ requests = 0

\* C2: every error raised while handling a request is caught by the
\* handler: the response sent is the error card, the final Cache-Control is
\* no-cache, no-store, must-revalidate, and a success body is never sent on
\* a run that raised an error.
C2_ErrorsCaught ==
    /\ err.name # "none" => pc \in {"catch", "done"}
    /\ pc = "done" => body.kind \in {"json", "svg"}
    /\ ErrorSent =>
        /\ body.kind = "svg"
        /\ headers.CacheControl =
            << <<"no-cache", <<>>>>, <<"no-store", <<>>>>,
               <<"must-revalidate", <<>>>> >>
    /\ SuccessSent => err.name = "none"

\* The error is raised after the success Cache-Control header was set.
C2_Witness ==
    /\ ErrorSent /\ err.message = MSG_JSON_ERROR
    /\ body.kind = "svg"
    /\ headers.CacheControl[1][1] = "no-cache"

\* C3: with no environment override the s-maxage of a success response is
\* the requested cache_seconds clamped to [14400, 86400], 14400 when it is
\* absent or not a number: 10 gives 14400, 100000 gives 86400.
C3_ClampedCacheSeconds ==
    (SuccessSent /\ env.CACHE_SECONDS = Undefined) =>
        LET requested == query.cache_seconds
        IN /\ SMaxAge >= 14400 /\ SMaxAge <= 86400
           /\ requested = <<"1", "0">> => SMaxAge = 14400
           /\ requested = <<"1", "0", "0", "0", "0", "0">> => SMaxAge = 86400
           /\ requested \in {Undefined, <<>>, <<"a", "b", "c">>} => SMaxAge = 14400
           /\ requested = <<"4", "3", "2", "0", "1">> => SMaxAge = 43201
           /\ requested = <<"-", "5">> => SMaxAge = 14400

C3_Witness ==
    /\ SuccessSent /\ env.CACHE_SECONDS = Undefined
    /\ query.cache_seconds = <<"1", "0", "0", "0", "0", "0">>
    /\ DirectiveValue("s-maxage") = <<"8", "6", "4", "0", "0">>

\* C4: when the upstream body has an empty or absent errors array, fetchStats
\* raises nothing and returns the upstream response unchanged.
C4_IdentityOnSuccess ==
    (Classified /\ res.data.errors = <<>>) => stats = res

\* C5: errors[0].type = NOT_FOUND makes fetchStats fail with the NotFound
\* error, whose message is errors[0].message when present and else the
\* default "Could not fetch repository."
C5_NotFound ==
    (HasFirstError /\ pc \in {"catch", "done"} /\ FirstError.type = "NOT_FOUND") =>
        /\ err.name = "CustomError"
        /\ err.type = "USER_NOT_FOUND"
        /\ err.message = IF Truthy(FirstError.message) THEN FirstError.message
                         ELSE MSG_COULD_NOT_FETCH_REPOSITORY

\* C6: errors[0].message present with a type other than NOT_FOUND makes
\* fetchStats fail with a GRAPHQL_ERROR ("Please try again later") whose
\* message is the first wrapped line, at most 90 characters; with neither a
\* NOT_FOUND type nor a message, with the generic message.
C6_GraphQLError ==
    (HasFirstError /\ pc \in {"catch", "done"} /\ FirstError.type # "NOT_FOUND") =>
        /\ err.name = "CustomError"
        /\ err.type = "GRAPHQL_ERROR"
        /\ err.secondaryMessage = "Please try again later"
        /\ IF Truthy(FirstError.message)
           THEN Len(err.message) <= 90
           ELSE err.message = MSG_GRAPHQL_GENERIC

C8_LoggedOnceAtClassification ==
    (Logging /\ ErrorSent) =>
        Len(log) = 1 /\ log[1].at = "fetchStats"

\* C8 (amended): the handler logs every error it catches once, when it
\* catches it; fetchStats logs the upstream errors array once more, before
\* it throws, when the body carries one.  Nothing is logged under test.
C8_LoggedByHandler ==
    LET upstream == IF Classified /\ res.data.hasErrors
                    THEN <<LogEntry("fetchStats", "errors")>> ELSE <<>>
    IN /\ ~Logging => log = <<>>
       /\ (Logging /\ pc = "catch") => log = upstream
       /\ (Logging /\ ErrorSent) =>
            log = upstream \o <<LogEntry("handler", err.name)>>
       /\ (Logging /\ SuccessSent) => log = <<>>

C8_Witness ==
    /\ ErrorSent /\ err.type = "USER_NOT_FOUND"
    /\ log = <<LogEntry("fetchStats", "errors"), LogEntry("handler", "CustomError")>>

C10_BoundedAndHalved ==
    SuccessSent =>
        /\ SMaxAge >= 14400 /\ SMaxAge <= 86400
        /\ TwiceMaxAge = SMaxAge

\* C10 (amended): max-age is half of s-maxage on every success response;
\* s-maxage lies in [14400, 86400] when CACHE_SECONDS is unset, empty, not a
\* number or 0, and is otherwise the integer CACHE_SECONDS starts with,
\* unclamped.
C10_HalvedOverrideUnclamped ==
    SuccessSent =>
        LET override == parseInt(env.CACHE_SECONDS)
        IN /\ TwiceMaxAge = SMaxAge
           /\ DirectiveValue("stale-while-revalidate") = <<"8", "6", "4", "0", "0">>
           /\ IF ~Truthy(env.CACHE_SECONDS) \/ override.nan \/ override.v = 0
              THEN SMaxAge >= 14400 /\ SMaxAge <= 86400
              ELSE SMaxAge = override.v

C10_Witness ==
    /\ SuccessSent /\ env.CACHE_SECONDS = <<"-", "5">>
    /\ DirectiveValue("s-maxage") = <<"-", "5">>
    /\ DirectiveValue("max-age") = <<"-", "2", ".", "5">>
====
